---------------------------- MODULE Spec2Model ----------------------------
(***************************************************************************)
(* Model of the stream consumer of src/src/classes/consumer.ts            *)
(* (class Consumer) running against a Redis stream with one consumer      *)
(* group, and of the event listener of src/unnamed/part_000 (class        *)
(* QueueEvents) reading the events stream of a queue.                      *)
(*                                                                         *)
(* A JavaScript value that is either a number or undefined/NaN/null is     *)
(* written as a set of at most one element: {} is undefined (NaN, null),   *)
(* {v} is the value v.                                                     *)
(***************************************************************************)
EXTENDS Integers, Sequences, FiniteSets, TLC

\* ------------------------------------------------------------------ bounds
\* Records appended to the stream over a run.
MaxRecords == 2
\* The clock takes the values Instant(0) .. Instant(MaxClock).
MaxClock == 3
\* Callback failures over a run (the callback is the caller's code).
MaxCbFails == 2
\* Date.now() at the start of a run, in days since the epoch (1970): clocks
\* and the timestamps of record ids are far later than 1970-01-02.
EpochDays == 3
\* Records appended to the events stream over a run.
MaxEvents == 2
\* Calls of run() on one listener.
MaxRuns == 2
\* Calls of close() on one listener.
MaxCloseCalls == 2
\* Exceptions thrown by the application's event handlers over a run.
MaxThrows == 1
\* Distinct failures of store commands reported by the loops over a run.
MaxFaults == 2

\* ------------------------------------------------------- program constants
DefaultMaxRetentionMs == 1000 * 60 * 60 * 24
DefaultTrimIntervalMs == 60000
DefaultBatchSize == 1

T0 == EpochDays * DefaultMaxRetentionMs

\* T0, T0 + 1min, T0 + 24h, T0 + 24h + 1min, T0 + 48h, ...
Instant(k) ==
  T0 + (k \div 2) * DefaultMaxRetentionMs + (k % 2) * DefaultTrimIntervalMs
Instants == { Instant(k) : k \in 0..MaxClock }

\* Consumer objects the application may construct, calls of consume() (each
\* runs one loop under its own consumer name), and callers of trimStream().
Instances == {1, 2}
Loops == {1, 2}
Direct == { -i : i \in Instances }
Tasks == Loops \cup Direct

\* ------------------------------------------------------------- JS values
Undefined == {}
Val(s) == CHOOSE x \in s : TRUE
\* a || d for a number-or-undefined a: undefined, NaN and 0 are falsy.
OrDefault(a, d) == IF a = {} \/ a = {0} THEN d ELSE Val(a)
\* x - a : NaN when a is undefined.
Minus(x, a) == IF a = {} THEN {} ELSE {x - Val(a)}

\* ------------------------------------------------------------- record ids
\* "<ms-timestamp>-<sequence>" is the pair <<ts, seq>>; id.split('-').map(Number)
\* yields that pair and its first element is the timestamp.
Timestamp(id) == id[1]
IdLess(a, b) == a[1] < b[1] \/ (a[1] = b[1] /\ a[2] < b[2])
ZeroId == <<0, 0>>

VARIABLES
  now,          \* Date.now() and the store's clock
  built,        \* the Consumer objects constructed
  consumerOpts, \* the options the objects were constructed with
  stream,       \* the stream: sequence of [id, data], increasing id
  lastGenId,    \* last id the store generated
  appended,     \* ids ever appended
  groupExists,  \* the consumer group was created
  lastDelivered,\* the group's last-delivered id
  pel,          \* pending entries list: set of <<id, consumer>>
  lastTrim,     \* Consumer.lastTrim, per object
  closing,      \* QueueBase.closing, per object
  inst,         \* the object each loop runs on (0: any object built)
  pc,           \* position of each loop / trimStream caller
  batch,        \* entries being processed by processMessages
  idx,          \* index of the entry being processed
  iter,         \* what the current iteration of each loop has done so far
  trimRun,      \* now and cutoffTime (consumer.ts:178-180) of the task's
                \* trimStream call, until the task moves on after the call
  errors,       \* what was emitted on 'error'
  cbFails,      \* callback failures so far
  feed,         \* the payloads the producers append
  cbLog         \* the callback invocations so far: set of <<id, loop>>

consumerVars ==
  << now, built, consumerOpts, stream, lastGenId, appended, groupExists,
     lastDelivered, pel, lastTrim, closing, inst, pc, batch, idx,
     iter, trimRun, errors, cbFails, feed, cbLog >>

\* The event listener of src/unnamed/part_000 (class QueueEvents) and the
\* events stream it reads.
VARIABLES
  events,       \* the events stream: the k-th record has the k-th id
  eventFeed,    \* the events the queue and its workers append
  mayThrow,     \* the application's handlers may throw
  listeners,    \* the QueueEvents objects constructed
  listenerOpts, \* the options they were constructed with
  running,      \* QueueEvents.running, per object
  closed,       \* QueueBase.closing of a QueueEvents object: the promise of
                \* the teardown ({} while undefined, {n}: of the n-th teardown)
  lpc,          \* position of the object's run()
  cursor,       \* the local `id` of consumeEvents
  readFrom,     \* the id the store resolved the blocked XREAD to
  since,        \* the last id of the stream when the first XREAD of the
                \* current loop reached the store ({}: none did yet)
  emitted,      \* what the object emitted: sequence of [topic, args]
  started,      \* the length of `emitted` when the current loop was entered
  failures,     \* how run() calls failed (rejections), per object
  autorun,      \* the first run() call is the constructor's and no other was made
  errorTopic,   \* the failures emitted on 'error' by the constructor
  runCalls,     \* calls of run() so far
  teardowns,    \* calls of disconnect() so far
  closeCalls,   \* what the calls of close() returned, in order
  throws        \* handler exceptions so far

listenerVars ==
  << events, eventFeed, mayThrow, listeners, listenerOpts, running, closed,
     lpc, cursor, readFrom, since, emitted, started, failures, autorun,
     errorTopic, runCalls, teardowns, closeCalls, throws >>

vars == << consumerVars, listenerVars >>

\* ------------------------------------------------------------ the store
StreamName == "stream"
Payloads == {"ok", "bad"}
\* JSON.parse(jobData['data']) succeeds; fields of a trimmed record are nil.
Decodable(data) == data = "ok"

RECURSIVE SortIds(_)
SortIds(S) ==
  IF S = {} THEN << >>
  ELSE LET m == CHOOSE a \in S : \A b \in S : a = b \/ IdLess(a, b)
       IN  << m >> \o SortIds(S \ {m})

Take(s, n) == SubSeq(s, 1, IF Len(s) < n THEN Len(s) ELSE n)
Ids(entries) == [k \in 1..Len(entries) |-> entries[k].id]
Range(s) == { s[k] : k \in 1..Len(s) }

\* XADD stream * data <d>
NextId == IF now > lastGenId[1] THEN << now, 0 >>
          ELSE << lastGenId[1], lastGenId[2] + 1 >>

DataOf(id) ==
  IF \E k \in 1..Len(stream) : stream[k].id = id
  THEN stream[CHOOSE k \in 1..Len(stream) : stream[k].id = id].data
  ELSE "nil"

\* XREADGROUP GROUP g c COUNT n STREAMS stream 0 : the consumer's own pending
\* entries; the reply always holds the one stream asked for.
PendingEntries(c, n) ==
  LET own == SortIds({ e[1] : e \in { e \in pel : e[2] = c } })
  IN  [k \in 1..Len(Take(own, n)) |-> [id |-> own[k], data |-> DataOf(own[k])]]
XReadGroupPending(c, n) == { << << StreamName, PendingEntries(c, n) >> >> }

\* Mutant: the read ignores the group's last-delivered id.
MutNewEntries(n) == Take(stream, n)
\* XREADGROUP GROUP g c COUNT n BLOCK ms STREAMS stream > : the records never
\* delivered to the group; null when the block time passes without any.
NewEntries(n) ==
  Take(SelectSeq(stream, LAMBDA r : IdLess(lastDelivered, r.id)), n)
XReadGroupNew(n) ==
  IF NewEntries(n) = << >> THEN {}
  ELSE { << << StreamName, NewEntries(n) >> >> }

\* XACK stream g id
XAck(p, id) == { e \in p : e[1] # id }
\* XRANGE stream - + COUNT 1
XRangeFirst == Take(stream, 1)
\* XTRIM stream MINID <cut>-0
XTrimMinId(cut) == SelectSeq(stream, LAMBDA r : ~IdLess(r.id, << cut, 0 >>))

\* ------------------------------------------------------------ options
BatchSize == OrDefault(consumerOpts.batchSize, DefaultBatchSize)
TrimInterval == OrDefault(consumerOpts.trimIntervalMs, DefaultTrimIntervalMs)
\* consumer.ts:90-91
PendingMaxRetentionMs ==
  OrDefault(consumerOpts.maxRetentionMs, DefaultMaxRetentionMs)
\* Mutant: the cutoff is the current time, the retention is not subtracted.
MutCutoffTime(t) == t
\* consumer.ts:179-180 : (now - maxRetentionMs) || 24h
CutoffTime(t) ==
  OrDefault(Minus(t, consumerOpts.maxRetentionMs), DefaultMaxRetentionMs)

InstOf(t) == IF t \in Loops THEN inst[t] ELSE -t

NoIter == [ pend |-> << >>, pnow |-> 0, nread |-> FALSE,
            calls |-> << >>, acks |-> << >>, fails |-> {} ]
NoTrim == [ at |-> 0, cutoff |-> 0 ]

\* ------------------------------------------------------------ listener
Listeners == {1, 2}

\* An id of the events stream is the position of its record; Dollar is the
\* special id '$' (the records appended from now on).
Dollar == -1
\* Mutant: the listener always starts at '$'.
MutStartId(o) == Dollar
\* opts.lastEventId || '$' : part_000:286 (an id is a non-empty string).
StartId(o) == IF o.lastEventId = Undefined THEN Dollar ELSE Val(o.lastEventId)

\* The records the queue and its workers append, as array2obj reads them:
\* every field is text.
Drained == [event |-> "drained"]
Paused == [event |-> "paused"]
Waiting == [event |-> "waiting", jobId |-> "1"]
Completed == [event |-> "completed", jobId |-> "1", returnvalue |-> "42"]
Progress == [event |-> "progress", jobId |-> "1", data |-> "{"]
EventArgs == { Drained, Paused, Waiting, Completed, Progress }

\* JSON.parse: the text "42" is the number 42, the text "{" is no JSON.
JSONValid(text) == text = "42"
JSONParse(text) == CASE text = "42" -> 42

\* part_000:301-311 : the switch on args.event; JSON.parse may throw.
Decodes(args) ==
  CASE args.event = "progress" -> JSONValid(args.data)
    [] args.event = "completed" -> JSONValid(args.returnvalue)
    [] OTHER -> TRUE
Decoded(args) ==
  CASE args.event = "progress" -> [args EXCEPT !.data = JSONParse(@)]
    [] args.event = "completed" -> [args EXCEPT !.returnvalue = JSONParse(@)]
    [] OTHER -> args

\* const { event, ...restArgs } = args : part_000:313
RestArgs(args) == [f \in DOMAIN args \ { "event" } |-> args[f]]
\* Mutant: the job id of the payload is not looked at.
MutHasJobId(rest) == FALSE
\* if (restArgs.jobId) : part_000:319
HasJobId(rest) == "jobId" \in DOMAIN rest /\ rest.jobId # ""

\* The emit calls for one record: part_000:315-322.  A topic is <<event>> or
\* <<event, jobId>> (the string `${event}:${jobId}`).
Emissions(args, id) ==
  LET rest == RestArgs(args) IN
    IF args.event = "drained"
    THEN << [topic |-> << "drained" >>, args |-> << id >>] >>
    ELSE << [topic |-> << args.event >>, args |-> << rest, id >>] >>
         \o IF HasJobId(rest)
            THEN << [topic |-> << args.event, rest.jobId >>,
                     args |-> << rest, id >>] >>
            ELSE << >>

\* The emit calls ems[k], ... ; the f-th emit call of the reply throws (a
\* handler of the application threw).
RECURSIVE EmitAll(_, _, _, _)
EmitAll(st, ems, k, f) ==
  IF k > Len(ems) \/ st.failure # "" THEN st
  ELSE EmitAll([st EXCEPT !.emitted = Append(@, ems[k]),
                          !.calls = @ + 1,
                          !.failure = IF st.calls + 1 = f THEN "dispatch"
                                      ELSE ""],
               ems, k + 1, f)

\* The for loop of consumeEvents over the records of a reply, from record k
\* on: part_000:297-323.  recs[k] is << id, args >>.
RECURSIVE Dispatch(_, _, _, _)
Dispatch(st, recs, k, f) ==
  IF k > Len(recs) \/ st.failure # "" THEN st
  ELSE LET id == recs[k][1]
           args == recs[k][2]
           at == [st EXCEPT !.id = id]
       IN  IF ~Decodes(args) THEN [at EXCEPT !.failure = "decode"]
           ELSE Dispatch(EmitAll(at, Emissions(Decoded(args), id), 1, f),
                         recs, k + 1, f)

\* XREAD BLOCK ms STREAMS events <id> : the records after id.
EventsAfter(id) ==
  [k \in 1..(Len(events) - id) |-> << id + k, events[id + k] >>]

\* The listeners in B were constructed with options from O; the queue appends
\* the events in F; T: the handlers of the application may throw.
ListenerBuilt(B, O, F, T, A) ==
  /\ events = << >>
  /\ eventFeed = F
  /\ mayThrow = T
  /\ listeners = B
  /\ listenerOpts \in O
  /\ running = [q \in Listeners |-> FALSE]
  /\ closed = [q \in Listeners |-> {}]
  /\ lpc = [q \in Listeners |-> "new"]
  /\ cursor = [q \in Listeners |-> Dollar]
  /\ readFrom = [q \in Listeners |-> 0]
  /\ since = [q \in Listeners |-> {}]
  /\ emitted = [q \in Listeners |-> << >>]
  /\ started = [q \in Listeners |-> 0]
  /\ failures = [q \in Listeners |-> {}]
  /\ autorun \in { a \in [Listeners -> BOOLEAN] :
                    \A q \in Listeners : a[q] \in IF q \in B THEN A ELSE { FALSE } }
  /\ errorTopic = [q \in Listeners |-> {}]
  /\ runCalls = [q \in Listeners |-> 0]
  /\ teardowns = [q \in Listeners |-> 0]
  /\ closeCalls = [q \in Listeners |-> << >>]
  /\ throws = 0
\* Listeners constructed with autorun = false: run() is called on them.
ListenerInit(B, O, F, T) == ListenerBuilt(B, O, F, T, { FALSE })
NoListener == ListenerInit({}, [lastEventId : {Undefined}], {}, FALSE)

\* The state after construction: the objects in B were constructed with options
\* from O; consume() will be called for the loops in L, the call of loop l on
\* object on[l] (0: on any object), and trimStream() by the callers in D.
ConsumerCalls(B, L, D, O, P, start, on) ==
  /\ now = start
  /\ built = B
  /\ consumerOpts \in O
  /\ stream = << >>
  /\ lastGenId = ZeroId
  /\ appended = {}
  /\ groupExists = FALSE
  /\ lastDelivered = ZeroId
  /\ pel = {}
  /\ lastTrim = [i \in Instances |-> 0]
  /\ closing = [i \in Instances |-> FALSE]
  /\ inst = on
  /\ pc = [t \in Tasks |-> IF t \in L THEN "idle"
                          ELSE IF t \in D THEN "rest" ELSE "unused"]
  /\ batch = [l \in Loops |-> << >>]
  /\ idx = [l \in Loops |-> 0]
  /\ iter = [l \in Loops |-> NoIter]
  /\ trimRun = [t \in Tasks |-> NoTrim]
  /\ errors = {}
  /\ cbFails = 0
  /\ feed = P
  /\ cbLog = {}
\* The consume() calls of a scenario are made on any object built.
ConsumerAt(B, L, D, O, P, start) ==
  ConsumerCalls(B, L, D, O, P, start, [l \in Loops |-> 0])
InitAt(B, L, D, O, P, start) == ConsumerAt(B, L, D, O, P, start) /\ NoListener
InitOf(B, L, D, O, P) == InitAt(B, L, D, O, P, T0)

storeVars == << stream, lastGenId, appended, groupExists, lastDelivered, pel >>

\* ------------------------------------------------------- processMessages
\* The loop of processMessages over `entries` from entry k on, run to its end,
\* oc[k] being the outcome of the callback for entry k.  st.thrown: an
\* exception left processMessages (JSON.parse is outside the inner try).
RECURSIVE ProcessAll(_, _, _, _, _)
ProcessAll(st, l, entries, k, oc) ==
  IF k > Len(entries) \/ st.thrown THEN st
  ELSE LET e == entries[k] IN
       IF ~Decodable(e.data)
       THEN [st EXCEPT !.thrown = TRUE,
                       !.errs = @ \cup { << l, "parse", e.id >> }]
       ELSE IF oc[k]
       THEN ProcessAll([st EXCEPT !.calls = Append(@, e.id),
                                  !.acks = Append(@, e.id),
                                  !.pel = XAck(@, e.id)],
                       l, entries, k + 1, oc)
       ELSE ProcessAll([st EXCEPT !.calls = Append(@, e.id),
                                  !.fails = @ \cup { e.id },
                                  !.nfail = @ + 1,
                                  !.errs = @ \cup { << l, "callback", e.id >> }],
                       l, entries, k + 1, oc)

\* consumer.ts:93-106 : for each entry of the pending batch, either process the
\* whole batch again or acknowledge that entry.
RECURSIVE PendingLoop(_, _, _, _, _, _)
PendingLoop(st, l, entries, j, oc, t) ==
  IF j > Len(entries) \/ st.thrown THEN st
  ELSE IF t - Timestamp(entries[j].id) <= PendingMaxRetentionMs
  THEN PendingLoop(ProcessAll(st, l, entries, 1, oc[j]), l, entries, j + 1, oc, t)
  ELSE PendingLoop([st EXCEPT !.acks = Append(@, entries[j].id),
                              !.pel = XAck(@, entries[j].id)],
                   l, entries, j + 1, oc, t)

\* Mutant: the guard looks at the entries of the first (and only) stream.
MutPendingGuard(reply) ==
  reply # {} /\ Len(Val(reply)) > 0 /\ Len(Val(reply)[1][2]) > 0
\* consumer.ts:79-83 : pendingResult && pendingResult.length > 1 &&
\* pendingResult[1].length > 0 (index 1 is the second stream of the reply).
PendingGuard(reply) ==
  reply # {} /\ Len(Val(reply)) > 1 /\ Len(Val(reply)[2]) > 0

\* consumer.ts:127
NewGuard(reply) ==
  reply # {} /\ Len(Val(reply)) > 0 /\ Len(Val(reply)[1]) > 0

\* ------------------------------------------------------------ actions
\* XGROUP CREATE stream group 0 MKSTREAM : the replies the store can give, an
\* error being named by its message.
XGroupCreate == IF groupExists THEN { "BUSYGROUP", "ERR" } ELSE { "OK", "ERR" }
\* Mutant: no failure of the creation is absorbed.
MutAbsorbed(message) == FALSE
\* consumer.ts:57 : message.includes('BUSYGROUP')
Absorbed(message) == message = "BUSYGROUP"

\* consume(group, cb): consumer.ts:39-62 and 141.  A failure of XGROUP CREATE
\* that is not absorbed leaves the promise chain through its catch.
Consume(l, i) ==
  /\ pc[l] = "idle"
  /\ i \in built
  /\ inst[l] \in { 0, i }
  /\ inst' = [inst EXCEPT ![l] = i]
  /\ \E reply \in XGroupCreate :
       IF reply # "OK" /\ ~Absorbed(reply)
       THEN /\ pc' = [pc EXCEPT ![l] = "failed"]
            /\ errors' = errors \cup { << l, reply, ZeroId >> }
            /\ UNCHANGED groupExists
       ELSE /\ pc' = [pc EXCEPT ![l] = "top"]
            /\ groupExists' = TRUE
            /\ UNCHANGED errors
  /\ UNCHANGED << now, built, consumerOpts, stream, lastGenId, appended, lastDelivered,
                  pel, lastTrim, closing, batch, idx, iter, trimRun, cbFails, feed,
                  cbLog, listenerVars >>

\* Mutant: the loop does not look at the closing signal.
MutClosing(l) == FALSE
\* this.closing, as the loop of consume reads it: consumer.ts:63
Closing(l) == closing[inst[l]]

\* while (!this.closing): consumer.ts:63
LoopTop(l) ==
  /\ pc[l] = "top"
  /\ IF Closing(l)
     THEN pc' = [pc EXCEPT ![l] = "done"] /\ UNCHANGED iter
     ELSE /\ pc' = [pc EXCEPT ![l] = "pending"]
          /\ iter' = [iter EXCEPT ![l] = NoIter]
  /\ UNCHANGED << now, built, consumerOpts, storeVars, lastTrim, closing, inst, batch,
                  idx, trimRun, errors, cbFails, feed,
                  cbLog, listenerVars >>

\* The pending phase: consumer.ts:66-109.  The branch 84-108 is written as one
\* step: PendingGuard is false for every reply that holds one stream, so the
\* branch is never entered and no interleaving inside it is lost.
PendingRead(l) ==
  /\ pc[l] = "pending"
  /\ LET reply == XReadGroupPending(l, BatchSize)
         entries == Val(reply)[1][2]
         n == Len(entries)
     IN  IF PendingGuard(reply)
         THEN \E oc \in [1..n -> [1..n -> BOOLEAN]] :
                LET st == PendingLoop([pel |-> pel, calls |-> << >>,
                                       acks |-> << >>, fails |-> {},
                                       nfail |-> 0, errs |-> {},
                                       thrown |-> FALSE],
                                      l, entries, 1, oc, now)
                IN  /\ cbFails + st.nfail <= MaxCbFails
                    /\ pel' = st.pel
                    /\ errors' = errors \cup st.errs
                    /\ cbFails' = cbFails + st.nfail
                    /\ iter' = [iter EXCEPT ![l] =
                                  [@ EXCEPT !.pend = Ids(entries), !.pnow = now,
                                            !.calls = st.calls, !.acks = st.acks,
                                            !.fails = st.fails]]
                    /\ cbLog' = cbLog \cup { << id, l >> : id \in Range(st.calls) }
                    /\ pc' = [pc EXCEPT ![l] = "top"]
         ELSE /\ iter' = [iter EXCEPT ![l] =
                            [@ EXCEPT !.pend = Ids(entries), !.pnow = now]]
              /\ pc' = [pc EXCEPT ![l] = "trim"]
              /\ UNCHANGED << pel, errors, cbFails, cbLog >>
  /\ UNCHANGED << now, built, consumerOpts, stream, lastGenId, appended, groupExists,
                  lastDelivered, lastTrim, closing, inst, batch, idx, trimRun,
                  feed, listenerVars >>

\* Where a task goes on when trimStream returns.
AfterTrim(t) == IF t \in Loops THEN "new" ELSE "rest"
\* The locals of a call that passed the rate limiter at time `at`; those of a
\* direct call are gone once it has returned.
TrimLocals(t, at, returned) ==
  IF t \in Direct /\ returned THEN NoTrim
  ELSE [at |-> at, cutoff |-> CutoffTime(at)]

\* Mutant: the interval is left out of the rate limiter.
MutRateLimited(i) == lastTrim[i] > now
\* consumer.ts:169-174
RateLimited(i) == lastTrim[i] + TrimInterval > now

\* trimStream(): consumer.ts:168-193, up to the reply of XRANGE.  Called by a
\* loop (consumer.ts:111) or directly on the object.
TrimStream(t) ==
  /\ \/ t \in Loops /\ pc[t] = "trim"
     \/ t \in Direct /\ pc[t] = "rest" /\ InstOf(t) \in built
  /\ LET i == InstOf(t)
         oldest == XRangeFirst
     IN  IF RateLimited(i)
         THEN /\ pc' = [pc EXCEPT ![t] = AfterTrim(t)]
              /\ UNCHANGED << lastTrim, trimRun >>
         ELSE /\ lastTrim' = [lastTrim EXCEPT ![i] = now]
              /\ IF Len(oldest) > 0
                    /\ Timestamp(oldest[1].id) < CutoffTime(now)
                 THEN /\ pc' = [pc EXCEPT ![t] = "xtrim"]
                      /\ trimRun' = [trimRun EXCEPT ![t] =
                                       TrimLocals(t, now, FALSE)]
                 ELSE /\ pc' = [pc EXCEPT ![t] = AfterTrim(t)]
                      /\ trimRun' = [trimRun EXCEPT ![t] =
                                       TrimLocals(t, now, TRUE)]
  /\ UNCHANGED << now, built, consumerOpts, storeVars, closing, inst, batch, idx, iter,
                  errors, cbFails, feed,
                  cbLog, listenerVars >>

\* consumer.ts:194
XTrim(t) ==
  /\ pc[t] = "xtrim"
  /\ stream' = XTrimMinId(trimRun[t].cutoff)
  /\ pc' = [pc EXCEPT ![t] = AfterTrim(t)]
  /\ trimRun' = [trimRun EXCEPT ![t] = TrimLocals(t, @.at, TRUE)]
  /\ UNCHANGED << now, built, consumerOpts, lastGenId, appended, groupExists,
                  lastDelivered, pel, lastTrim, closing, inst, batch, idx, iter,
                  errors, cbFails, feed,
                  cbLog, listenerVars >>

\* The new-record phase: consumer.ts:114-135, up to the call of processMessages.
NewRead(l) ==
  /\ pc[l] = "new"
  /\ LET reply == XReadGroupNew(BatchSize)
         entries == IF reply = {} THEN << >> ELSE Val(reply)[1][2]
     IN  /\ pel' = pel \cup { << entries[k].id, l >> : k \in 1..Len(entries) }
         /\ lastDelivered' = IF entries = << >> THEN lastDelivered
                             ELSE entries[Len(entries)].id
         /\ IF NewGuard(reply)
            THEN /\ batch' = [batch EXCEPT ![l] = entries]
                 /\ idx' = [idx EXCEPT ![l] = 1]
                 /\ pc' = [pc EXCEPT ![l] = "cb"]
            ELSE /\ pc' = [pc EXCEPT ![l] = "top"]
                 /\ UNCHANGED << batch, idx >>
  /\ iter' = [iter EXCEPT ![l].nread = TRUE]
  /\ trimRun' = [trimRun EXCEPT ![l] = NoTrim]
  /\ UNCHANGED << now, built, consumerOpts, stream, lastGenId, appended, groupExists,
                  lastTrim, closing, inst, errors, cbFails, feed,
                  cbLog, listenerVars >>

\* The next entry of the batch, or the end of the iteration.
Advance(l) ==
  IF idx[l] < Len(batch[l])
  THEN /\ idx' = [idx EXCEPT ![l] = @ + 1]
       /\ pc' = [pc EXCEPT ![l] = "cb"]
       /\ UNCHANGED batch
  ELSE /\ idx' = [idx EXCEPT ![l] = 0]
       /\ pc' = [pc EXCEPT ![l] = "top"]
       /\ batch' = [batch EXCEPT ![l] = << >>]

\* Mutant: no catch inside the loop, the exception ends the loop.
MutLoopCatch(l) ==
  /\ idx' = [idx EXCEPT ![l] = 0]
  /\ pc' = [pc EXCEPT ![l] = "failed"]
  /\ batch' = [batch EXCEPT ![l] = << >>]
\* An exception reaches the catch of the loop: consumer.ts:136-138.
LoopCatch(l) ==
  /\ idx' = [idx EXCEPT ![l] = 0]
  /\ pc' = [pc EXCEPT ![l] = "top"]
  /\ batch' = [batch EXCEPT ![l] = << >>]

\* Mutant: the record is acknowledged although its callback threw.
MutCallbackFailed(l, id) ==
  /\ errors' = errors \cup { << l, "callback", id >> }
  /\ iter' = [iter EXCEPT ![l].calls = Append(@, id), ![l].fails = @ \cup { id }]
  /\ pc' = [pc EXCEPT ![l] = "ack"]
  /\ UNCHANGED << batch, idx >>
\* What follows a callback that threw: consumer.ts:162-164.
CallbackFailed(l, id) ==
  /\ errors' = errors \cup { << l, "callback", id >> }
  /\ iter' = [iter EXCEPT ![l].calls = Append(@, id), ![l].fails = @ \cup { id }]
  /\ Advance(l)

\* processMessages, one entry up to the end of its callback: consumer.ts:152-160
Callback(l) ==
  /\ pc[l] = "cb"
  /\ LET e == batch[l][idx[l]] IN
       IF ~Decodable(e.data)
       THEN /\ errors' = errors \cup { << l, "parse", e.id >> }
            /\ LoopCatch(l)
            /\ UNCHANGED << iter, cbFails, cbLog >>
       ELSE /\ cbLog' = cbLog \cup { << e.id, l >> }
            /\ \E ok \in BOOLEAN :
              IF ok
              THEN /\ pc' = [pc EXCEPT ![l] = "ack"]
                   /\ iter' = [iter EXCEPT ![l].calls = Append(@, e.id)]
                   /\ UNCHANGED << errors, cbFails, batch, idx >>
              ELSE /\ cbFails < MaxCbFails
                   /\ cbFails' = cbFails + 1
                   /\ CallbackFailed(l, e.id)
  /\ UNCHANGED << now, built, consumerOpts, storeVars, lastTrim, closing, inst,
                  trimRun, feed, listenerVars >>

\* consumer.ts:161
Ack(l) ==
  /\ pc[l] = "ack"
  /\ pel' = XAck(pel, batch[l][idx[l]].id)
  /\ iter' = [iter EXCEPT ![l].acks = Append(@, batch[l][idx[l]].id)]
  /\ Advance(l)
  /\ UNCHANGED << now, built, consumerOpts, stream, lastGenId, appended, groupExists,
                  lastDelivered, lastTrim, closing, inst, trimRun, errors,
                  cbFails, feed,
                  cbLog, listenerVars >>

\* close() of the object sets the closing signal.
Close(i) ==
  /\ i \in built
  /\ ~closing[i]
  /\ closing' = [closing EXCEPT ![i] = TRUE]
  /\ UNCHANGED << now, built, consumerOpts, storeVars, lastTrim, inst, pc, batch, idx,
                  iter, trimRun, errors, cbFails, feed,
                  cbLog, listenerVars >>

\* A producer appends a record (XADD stream * data <d>).
Produce(d) ==
  /\ d \in feed
  /\ Cardinality(appended) < MaxRecords
  /\ stream' = Append(stream, [id |-> NextId, data |-> d])
  /\ lastGenId' = NextId
  /\ appended' = appended \cup { NextId }
  /\ UNCHANGED << now, built, consumerOpts, groupExists, lastDelivered, pel, lastTrim,
                  closing, inst, pc, batch, idx, iter, trimRun, errors, cbFails, feed,
                  cbLog, listenerVars >>

\* Time passes.
Tick ==
  /\ \E t \in Instants : t > now /\ now' = t
  /\ UNCHANGED << built, consumerOpts, storeVars, lastTrim, closing, inst, pc, batch,
                  idx, iter, trimRun, errors, cbFails, feed,
                  cbLog, listenerVars >>

Next ==
  \/ \E l \in Loops, i \in Instances : Consume(l, i)
  \/ \E l \in Loops : LoopTop(l) \/ PendingRead(l) \/ NewRead(l)
                      \/ Callback(l) \/ Ack(l)
  \/ \E t \in Tasks : TrimStream(t) \/ XTrim(t)
  \/ \E i \in Instances : Close(i)
  \/ \E d \in Payloads : Produce(d)
  \/ Tick

OptsOf(R, I, B) == [ maxRetentionMs : R, trimIntervalMs : I, batchSize : B ]
AnyRetention == { Undefined, {0}, {DefaultMaxRetentionMs} }
AnyInterval == { Undefined, {0}, {2 * DefaultTrimIntervalMs} }
AnyBatch == { Undefined, {2} }

\* One object, one consume() call.
Init == InitOf({1}, {1}, {}, OptsOf(AnyRetention, {Undefined}, AnyBatch), {"ok"})
Spec == Init /\ [][Next]_vars

\* One object, one consume() call and a caller of trimStream().
InitTrim == InitOf({1}, {1}, {-1}, OptsOf(AnyRetention, AnyInterval, {Undefined}),
                   {"ok"})
SpecTrim == InitTrim /\ [][Next]_vars

\* Two objects constructed with the same options and one consume() call on
\* each, for the same group, from the last tick of the clock on.
Init2 ==
  /\ ConsumerCalls({1, 2}, {1, 2}, {}, OptsOf({{0}}, {Undefined}, {{2}}),
                   {"ok"}, Instant(MaxClock - 1), [l \in Loops |-> l])
  /\ NoListener
Spec2 == Init2 /\ [][Next]_vars

\* Two objects constructed with the same options and two consume() calls for
\* the same group, each on either object.
InitCalls == InitAt({1, 2}, {1, 2}, {}, OptsOf({{0}}, {Undefined}, {{2}}),
                    {"ok"}, Instant(MaxClock - 1))
SpecCalls == InitCalls /\ [][Next]_vars

\* The steps of a loop: each is the continuation of a promise the event loop
\* resolves, so a loop that can step does step.
LoopStep(l) ==
  \/ LoopTop(l) \/ PendingRead(l) \/ TrimStream(l) \/ XTrim(l)
  \/ NewRead(l) \/ Callback(l) \/ Ack(l)
FairSpec == Init /\ [][Next]_vars /\ \A l \in Loops : WF_vars(LoopStep(l))

\* One object, one consume() call, from the last tick of the clock on, every
\* loop that can step taking its steps.
InitShutdown == InitAt({1}, {1}, {}, OptsOf(AnyRetention, {Undefined}, AnyBatch),
                       {"ok"}, Instant(MaxClock - 1))
FairShutdown ==
  InitShutdown /\ [][Next]_vars /\ \A l \in Loops : WF_vars(LoopStep(l))

\* ------------------------------------------------------ failing commands
\* The store commands a loop awaits, by the position of the loop.
CommandAt == [ pending |-> "read", new |-> "read", trim |-> "trim",
               xtrim |-> "trim", ack |-> "ack" ]
Faults == { e \in errors : e[2] \in { "read", "trim", "ack" } }

\* The command the loop l awaits is rejected (a transport error).  `done`: the
\* store had executed it and only the reply was lost.  A rejected XACK is
\* caught with the callback's errors (consumer.ts:162-164), every other
\* rejection by the catch of the loop (consumer.ts:136-138).
CommandFails(l) ==
  /\ pc[l] \in DOMAIN CommandAt
  /\ pc[l] = "trim" => ~RateLimited(inst[l])
  /\ Cardinality(Faults) < MaxFaults
  /\ \E done \in BOOLEAN :
       LET entries == NewEntries(BatchSize)
           id == IF pc[l] = "ack" THEN batch[l][idx[l]].id ELSE ZeroId
       IN  /\ errors' = errors \cup { << l, CommandAt[pc[l]], id >> }
           /\ pel' = IF done /\ pc[l] = "new"
                     THEN pel \cup { << entries[k].id, l >> :
                                       k \in 1..Len(entries) }
                     ELSE IF done /\ pc[l] = "ack" THEN XAck(pel, id)
                     ELSE pel
           /\ lastDelivered' = IF done /\ pc[l] = "new" /\ entries # << >>
                               THEN entries[Len(entries)].id
                               ELSE lastDelivered
           /\ stream' = IF done /\ pc[l] = "xtrim"
                        THEN XTrimMinId(trimRun[l].cutoff) ELSE stream
           /\ done => pc[l] \in { "new", "ack", "xtrim" }
  /\ lastTrim' = IF pc[l] = "trim" THEN [lastTrim EXCEPT ![inst[l]] = now]
                 ELSE lastTrim
  /\ trimRun' = [trimRun EXCEPT ![l] = NoTrim]
  /\ IF pc[l] = "ack" THEN Advance(l) ELSE LoopCatch(l)
  /\ UNCHANGED << now, built, consumerOpts, lastGenId, appended, groupExists,
                  closing, inst, iter, cbFails, feed, cbLog, listenerVars >>

NextFaults == Next \/ \E l \in Loops : CommandFails(l)

\* One object, one consume() call, records that cannot be decoded and store
\* commands that fail, from the last tick of the clock on.
InitFaults == InitAt({1}, {1}, {}, OptsOf(AnyRetention, {Undefined}, AnyBatch),
                     Payloads, Instant(MaxClock - 1))
SpecFaults == InitFaults /\ [][NextFaults]_vars

\* ----------------------------------------------------- listener actions
\* Mutant: run() does not look at the running flag.
MutRunning(q) == FALSE
\* this.running, as run() reads it: part_000:258
Running(q) == running[q]

\* run(), called by the application or by the constructor (autorun), up to
\* the entry of the loop of consumeEvents: part_000:257-286.  A call on a
\* running listener is rejected.  (A last-seen id given to the constructor is
\* the id of a record the stream holds, or the start of the stream.)
Run(q) ==
  /\ q \in listeners
  /\ runCalls[q] < MaxRuns
  /\ StartId(listenerOpts) <= Len(events)
  /\ runCalls' = [runCalls EXCEPT ![q] = @ + 1]
  /\ IF ~Running(q)
     THEN /\ running' = [running EXCEPT ![q] = TRUE]
          /\ autorun' = [autorun EXCEPT ![q] = @ /\ runCalls[q] = 0]
          /\ cursor' = [cursor EXCEPT ![q] = StartId(listenerOpts)]
          /\ lpc' = [lpc EXCEPT ![q] = "read"]
          /\ started' = [started EXCEPT ![q] = Len(emitted[q])]
          /\ since' = [since EXCEPT ![q] = {}]
          /\ UNCHANGED failures
     ELSE /\ failures' = [failures EXCEPT ![q] = @ \cup { "running" }]
          /\ UNCHANGED << running, cursor, lpc, started, since, autorun >>
  /\ UNCHANGED << consumerVars, events, eventFeed, mayThrow, listeners,
                  listenerOpts, closed, readFrom, emitted, errorTopic,
                  teardowns, closeCalls, throws >>

\* while (!this.closing) and the XREAD it sends: part_000:288-292.  The store
\* resolves '$' to the last id of the stream when the command arrives.
XRead(q) ==
  /\ lpc[q] = "read"
  /\ IF closed[q] # {}
     THEN /\ lpc' = [lpc EXCEPT ![q] = "ended"]
          /\ UNCHANGED << readFrom, since >>
     ELSE /\ lpc' = [lpc EXCEPT ![q] = "blocked"]
          /\ readFrom' = [readFrom EXCEPT ![q] =
                            IF cursor[q] = Dollar THEN Len(events)
                            ELSE cursor[q]]
          /\ since' = [since EXCEPT ![q] =
                         IF @ = {} THEN { Len(events) } ELSE @]
  /\ UNCHANGED << consumerVars, events, eventFeed, mayThrow, listeners,
                  listenerOpts, running, closed, cursor, emitted, started,
                  failures, autorun, errorTopic, runCalls, teardowns,
                  closeCalls, throws >>

\* Mutant: the failure is swallowed and the loop reads again.
MutRunFailed(q, failure) ==
  /\ lpc' = [lpc EXCEPT ![q] = "read"]
  /\ UNCHANGED << running, failures, errorTopic >>
\* An exception leaves consumeEvents: the catch of run() resets the flag and
\* rethrows (part_000:273-276), the run() promise rejects and, when the
\* constructor made the call, its catch emits 'error' (part_000:217-219).
RunFailed(q, failure) ==
  /\ lpc' = [lpc EXCEPT ![q] = "failed"]
  /\ running' = [running EXCEPT ![q] = FALSE]
  /\ failures' = [failures EXCEPT ![q] = @ \cup { failure }]
  /\ errorTopic' = [errorTopic EXCEPT ![q] =
                      IF autorun[q] THEN @ \cup { failure } ELSE @]

\* The reply of the XREAD and what consumeEvents does with it:
\* part_000:290-324.  The reply is null when the block time passed without a
\* record, when the connection was torn down, or when the wrapper
\* (checkConnectionError) absorbed a transient failure of the read.
XReadReply(q) ==
  /\ lpc[q] = "blocked"
  /\ LET recs == EventsAfter(readFrom[q]) IN
       \/ /\ recs = << >> \/ closed[q] # {}
          /\ lpc' = [lpc EXCEPT ![q] = "read"]
          /\ UNCHANGED << cursor, emitted, running, failures, errorTopic,
                          throws >>
       \/ /\ recs # << >>
          /\ \E f \in 0..(IF mayThrow /\ throws < MaxThrows
                          THEN 2 * Len(recs) ELSE 0) :
               LET st == Dispatch([emitted |-> emitted[q], id |-> cursor[q],
                                   failure |-> "", calls |-> 0],
                                  recs, 1, f)
               IN  /\ f > 0 => st.failure = "dispatch"
                   /\ throws' = IF f > 0 THEN throws + 1 ELSE throws
                   /\ emitted' = [emitted EXCEPT ![q] = st.emitted]
                   /\ cursor' = [cursor EXCEPT ![q] = st.id]
                   /\ IF st.failure = ""
                      THEN /\ lpc' = [lpc EXCEPT ![q] = "read"]
                           /\ UNCHANGED << running, failures, errorTopic >>
                      ELSE RunFailed(q, st.failure)
  /\ UNCHANGED << consumerVars, events, eventFeed, mayThrow, listeners,
                  listenerOpts, closed, readFrom, since, started, autorun,
                  runCalls, teardowns, closeCalls >>

\* Mutant: close() does not look at the teardown it remembered.
MutNotClosing(q) == TRUE
\* if (!this.closing) : part_000:334
NotClosing(q) == closed[q] = {}

\* close(): part_000:333-338
QueueEventsClose(q) ==
  /\ q \in listeners
  /\ Len(closeCalls[q]) < MaxCloseCalls
  /\ IF NotClosing(q)
     THEN /\ teardowns' = [teardowns EXCEPT ![q] = @ + 1]
          /\ closed' = [closed EXCEPT ![q] = { teardowns[q] + 1 }]
     ELSE UNCHANGED << teardowns, closed >>
  /\ closeCalls' = [closeCalls EXCEPT ![q] = Append(@, Val(closed'[q]))]
  /\ UNCHANGED << consumerVars, events, eventFeed, mayThrow, listeners,
                  listenerOpts, running, lpc, cursor, readFrom, since,
                  emitted, started, failures, autorun, errorTopic, runCalls,
                  throws >>

\* The queue or a worker appends an event (XADD events * event <e> ...).
AddEvent(e) ==
  /\ e \in eventFeed
  /\ Len(events) < MaxEvents
  /\ events' = Append(events, e)
  /\ UNCHANGED << consumerVars, eventFeed, mayThrow, listeners, listenerOpts,
                  running, closed, lpc, cursor, readFrom, since, emitted,
                  started, failures, autorun, errorTopic, runCalls, teardowns,
                  closeCalls, throws >>

\* The XREAD fails with an error the wrapper (checkConnectionError) rethrows:
\* the exception leaves consumeEvents at part_000:290-292.
XReadFails(q) ==
  /\ lpc[q] = "blocked"
  /\ RunFailed(q, "read")
  /\ UNCHANGED << consumerVars, events, eventFeed, mayThrow, listeners,
                  listenerOpts, closed, cursor, readFrom, since, emitted,
                  started, autorun, runCalls, teardowns, closeCalls, throws >>

NextEvents ==
  \/ \E q \in Listeners : Run(q) \/ XRead(q) \/ XReadReply(q)
                          \/ QueueEventsClose(q)
  \/ \E e \in EventArgs : AddEvent(e)

NoConsumer ==
  ConsumerAt({}, {}, {}, OptsOf({Undefined}, {Undefined}, {Undefined}), {}, T0)
AnyLastEventId == { Undefined, {0}, {1} }

\* One listener, any events, handlers that may throw.
InitEvents ==
  NoConsumer /\ ListenerInit({1}, [lastEventId : AnyLastEventId], EventArgs, TRUE)
SpecEvents == InitEvents /\ [][NextEvents]_vars

\* One listener started by its constructor or by a run() call, any events,
\* reads that fail.
NextFailures == NextEvents \/ \E q \in Listeners : XReadFails(q)
InitFailures ==
  /\ NoConsumer
  /\ ListenerBuilt({1}, [lastEventId : { Undefined, {0} }], EventArgs, FALSE,
                   BOOLEAN)
SpecFailures == InitFailures /\ [][NextFailures]_vars

\* Two listeners started at '$' on the same events stream.
InitBroadcast ==
  NoConsumer /\ ListenerInit({1, 2}, [lastEventId : {Undefined}], {Waiting}, FALSE)
SpecBroadcast == InitBroadcast /\ [][NextEvents]_vars

\* ------------------------------------------------------------ properties
\* The retention horizon and the trim window of the specification: the
\* configured value, the documented default when none is configured.
RetentionHorizon ==
  IF consumerOpts.maxRetentionMs = Undefined THEN DefaultMaxRetentionMs
  ELSE Val(consumerOpts.maxRetentionMs)
TrimWindow ==
  IF consumerOpts.trimIntervalMs = Undefined THEN DefaultTrimIntervalMs
  ELSE Val(consumerOpts.trimIntervalMs)

\* The iteration of loop l is over (iter[l] tells what it did).
IterationEnded(l) == pc[l] = "top"
FreshPending(l) ==
  { id \in Range(iter[l].pend) :
      iter[l].pnow - Timestamp(id) <= RetentionHorizon }
StalePending(l) ==
  { id \in Range(iter[l].pend) :
      iter[l].pnow - Timestamp(id) > RetentionHorizon }
PendingIds == { e[1] : e \in pel }

\* C1: a record whose callback failed and that a later pending-phase read of
\* the same reader returns while its id-age is within maxRetentionMs has the
\* callback invoked for it again in that iteration.
C1_FailedRecordRetried ==
  \A l \in Loops :
    IterationEnded(l) => FreshPending(l) \subseteq Range(iter[l].calls)

\* C2: if some reader of the group keeps running (and the callback fails only
\* finitely often), every appended record whose age stays within
\* maxRetentionMs ends up delivered and acknowledged.
ReaderRunning ==
  \E l \in Loops : pc[l] \notin { "unused", "idle", "done", "failed" }
Settled(id) == ~IdLess(lastDelivered, id) /\ id \notin PendingIds
Stale(id) == now - Timestamp(id) > RetentionHorizon
C2_AtLeastOnce ==
  (<>[]ReaderRunning) => <>[](\A id \in appended : Settled(id) \/ Stale(id))

\* C3: an iteration whose pending-phase read returned records issues no
\* new-record read.
C3_PendingBeforeNew ==
  \A l \in Loops : iter[l].pend # << >> => ~iter[l].nread

\* C4: every record returned by a pending-phase read with id-age greater than
\* maxRetentionMs is acknowledged in that iteration and the callback is not
\* invoked for it.
C4_StalePendingDiscarded ==
  \A l \in Loops :
    IterationEnded(l) =>
      \A id \in StalePending(l) :
        id \in Range(iter[l].acks) /\ id \notin Range(iter[l].calls)

\* C5: a record is acknowledged only after its callback succeeded for it in
\* this pass (or, in the pending phase, because it is older than
\* maxRetentionMs); a failed callback is reported on the error channel, the
\* record is not acknowledged in that pass, and the loop goes on with the next
\* record of the batch or the next iteration.
AckedBy(l, id) ==
  \/ id \in Range(iter'[l].calls) /\ id \notin iter'[l].fails
  \/ /\ id \in Range(iter'[l].pend)
     /\ iter'[l].pnow - Timestamp(id) > RetentionHorizon
C5_AckOnlyAfterSuccess ==
  /\ [](\A l \in Loops : \A id \in iter[l].fails :
          /\ << l, "callback", id >> \in errors
          /\ id \notin Range(iter[l].acks)
          /\ id \in PendingIds)
  /\ [][ /\ \A id \in PendingIds \ PendingIds' :
              \E l \in Loops : AckedBy(l, id)
         /\ \A l \in Loops :
              iter'[l].fails # iter[l].fails /\ iter'[l].fails # {} =>
                IF idx[l] < Len(batch[l])
                THEN pc'[l] = "cb" /\ idx'[l] = idx[l] + 1
                ELSE pc'[l] = "top" ]_vars
C5_Witness ==
  \E l \in Loops : iter[l].fails # {} /\ iter[l].acks # << >>

\* C6: a trim never removes a record whose timestamp is at or after the cutoff
\* now - maxRetentionMs (now: the time the trimStream call read).
C6_TrimKeepsFresh ==
  [][ \A t \in Tasks :
        pc[t] = "xtrim" /\ pc'[t] # "xtrim" =>
          \A k \in 1..Len(stream) :
            Timestamp(stream[k].id) >= trimRun[t].at - RetentionHorizon =>
              stream[k] \in Range(stream') ]_vars
C6_Witness ==
  /\ \E t \in Tasks : trimRun[t] # NoTrim /\ pc[t] # "xtrim"
  /\ Len(stream) > 0
  /\ Cardinality(appended) > Len(stream)

\* C7: on one object, a trimStream call passes the rate limiter only when at
\* least trimIntervalMs has passed since the last call that did.
\* (lastTrim = 0: no call has passed it yet.)
TrimPasses(i) ==
  \/ lastTrim'[i] # lastTrim[i]
  \/ \E t \in Tasks :
       /\ pc[t] \in { "trim", "rest" } /\ InstOf(t) = i
       /\ trimRun'[t] # trimRun[t] /\ trimRun'[t] # NoTrim
C7_TrimOncePerWindow ==
  [][ \A i \in Instances :
        TrimPasses(i) =>
          lastTrim[i] = 0 \/ now - lastTrim[i] >= TrimWindow ]_vars
C7_Witness ==
  /\ inst[1] = 1
  /\ pc[-1] = "xtrim" /\ pc[1] = "new"
  /\ trimRun[1] # NoTrim
  /\ trimRun[1].at > trimRun[-1].at

\* C8: when trim maintenance of an iteration has run (it passed the rate
\* limiter at time t and is over), no record older than maxRetentionMs at t is
\* left in the stream.
C8_StaleRecordsTrimmed ==
  \A l \in Loops :
    pc[l] = "new" /\ trimRun[l] # NoTrim =>
      \A k \in 1..Len(stream) :
        trimRun[l].at - Timestamp(stream[k].id) <= RetentionHorizon

\* C9: when maxRetentionMs is not configured the trim cutoff is now - 24h.
C9_DefaultRetentionCutoff ==
  consumerOpts.maxRetentionMs = Undefined =>
    \A t \in Tasks :
      trimRun[t] # NoTrim =>
        trimRun[t].cutoff = trimRun[t].at - DefaultMaxRetentionMs

\* C10: with maxRetentionMs = 0, every record that was already pending when a
\* pending-phase read returned it is acknowledged in that pass and the
\* callback is invoked for none of them.
C10_ZeroRetentionDiscards ==
  consumerOpts.maxRetentionMs = {0} =>
    \A l \in Loops :
      IterationEnded(l) =>
        \A id \in Range(iter[l].pend) :
          Timestamp(id) < iter[l].pnow =>
            id \in Range(iter[l].acks) /\ id \notin Range(iter[l].calls)

\* C11: within one pass (iteration) of a reader, an acknowledgement is issued
\* at most once per record id, whatever the batch size.
NoDuplicates(s) == \A j, k \in 1..Len(s) : s[j] = s[k] => j = k
C11_AckOncePerPass ==
  \A l \in Loops : NoDuplicates(iter[l].acks)
C11_Witness ==
  \E l \in Loops : Len(iter[l].acks) >= 2 /\ IterationEnded(l)

\* C12: two readers of one group split the records: no record id is handed to
\* the callbacks of both.
C12_GroupSplitsRecords ==
  \A e, f \in cbLog : e[1] = f[1] => e[2] = f[2]
C12_Witness ==
  \E e, f \in cbLog : e[2] = 1 /\ f[2] = 2

\* C13: consume() creates the group idempotently.  A BUSYGROUP reply is
\* absorbed: it is never reported and the loop starts.  Any other failure of
\* the creation is fatal for that call: it is reported on the error channel,
\* the call never reads, acknowledges or invokes the callback, and it never
\* leaves that state.
Started(l) == pc[l] \notin { "unused", "idle", "failed" }
NeverRan(l) ==
  /\ iter[l] = NoIter /\ batch[l] = << >> /\ trimRun[l] = NoTrim
  /\ \A e \in pel \cup cbLog : e[2] # l
C13_GroupCreatedIdempotently ==
  /\ [](\A l \in Loops :
          /\ << l, "BUSYGROUP", ZeroId >> \notin errors
          /\ pc[l] = "failed" =>
               << l, "ERR", ZeroId >> \in errors /\ NeverRan(l))
  /\ [][ \A l \in Loops :
           /\ pc[l] = "failed" => pc'[l] = "failed"
           /\ pc[l] = "idle" /\ Started(l)' => groupExists' /\ errors' = errors
       ]_vars
C13_Witness ==
  /\ \A l \in Loops : Started(l)
  /\ errors = {}

\* C14: shutdown is cooperative.  The closing signal is looked at at the top
\* of each iteration: once the object is closing, a reader at the top of its
\* loop starts no new iteration, a reader inside an iteration reaches the top
\* without starting another one, and the loop comes to its end.
InLoop(l) == pc[l] \notin { "unused", "idle", "failed", "done" }
C14_CooperativeShutdown ==
  /\ [][ \A l \in Loops :
           InLoop(l) /\ closing[inst[l]] =>
             /\ pc[l] = "top" => pc'[l] \in { "top", "done" }
             /\ iter'[l] # iter[l] => pc[l] # "top" ]_vars
  /\ \A l \in Loops : (InLoop(l) /\ closing[inst[l]]) ~> (pc[l] = "done")
C14_Witness ==
  \E l \in Loops : pc[l] = "done" /\ iter[l].acks # << >>

\* The ids of the records the listener emitted under their bare kind since
\* its current loop was entered, in the order of emission.
BareIds(q) ==
  LET run == SubSeq(emitted[q], started[q] + 1, Len(emitted[q]))
      bare == SelectSeq(run, LAMBDA e : Len(e.topic) = 1)
  IN  [k \in 1..Len(bare) |-> bare[k].args[Len(bare[k].args)]]
ResumedAt(q) == Val(listenerOpts.lastEventId)

\* C15: a listener started with lastEventId = X emits exactly the records
\* after X, each once, in the order of their ids: it never emits a record at
\* or before X and never skips one after X, and its cursor only increases.
C15_ResumeAfterLastEventId ==
  /\ [](\A q \in listeners :
          listenerOpts.lastEventId # Undefined /\ lpc[q] # "new" =>
            /\ \A k \in 1..Len(BareIds(q)) : BareIds(q)[k] = ResumedAt(q) + k
            /\ cursor[q] >= ResumedAt(q)
            /\ Len(BareIds(q)) >= cursor[q] - ResumedAt(q) - 1
            /\ lpc[q] # "failed" => Len(BareIds(q)) = cursor[q] - ResumedAt(q))
  /\ [][ \A q \in listeners :
           listenerOpts.lastEventId # Undefined /\ lpc[q] = "blocked" =>
             /\ cursor'[q] >= cursor[q]
             /\ emitted'[q] # emitted[q] => cursor'[q] > cursor[q]
             /\ lpc'[q] = "read" /\ emitted'[q] # emitted[q] =>
                  cursor'[q] = Len(events) ]_vars
C15_Witness ==
  \E q \in listeners :
    /\ listenerOpts.lastEventId = {1}
    /\ BareIds(q) = << 2 >> /\ lpc[q] = "blocked"

\* C16: on one listener object, across run, failure of the loop, run again
\* and close, no record is emitted a second time under the same topic: the
\* cursor the object reached is kept, so a restarted loop goes on after it.
C16_NoRedeliveryAfterRestart ==
  \A q \in listeners : NoDuplicates(emitted[q])


\* C17: each of several listeners started at '$' emits every record appended
\* after it started (after its first read reached the store): while a
\* listener waits for the reply of a read, each such record was emitted by it
\* or is after the id the read was issued with.
C17_BroadcastToEveryListener ==
  \A q \in listeners :
    lpc[q] = "blocked" /\ since[q] # {} =>
      \A k \in 1..Len(events) :
        k > Val(since[q]) => k \in Range(BareIds(q)) \/ k > readFrom[q]


\* C18: the shape of the dispatch.  A record of kind "drained" yields exactly
\* one emission, under "drained", carrying only the id; a record of another
\* kind yields one emission carrying (payload, id) under the bare kind,
\* followed, if and only if the payload carries a job id, by one emission
\* under "kind:jobId" with the same payload and id.  The emissions of a loop
\* step are those of the records of the reply, in the order of the records
\* (up to the point of a failure, if the step fails).
\* The payload of a record: its fields but the kind, text but for the
\* progress data and the completion return value, which are decoded.
PayloadOf(id) ==
  LET r == events[id]
      text == [f \in DOMAIN r \ { "event" } |-> r[f]]
  IN  IF r.event = "completed" THEN [text EXCEPT !.returnvalue = 42]
      ELSE IF r.event = "progress" THEN [text EXCEPT !.data = 42]
      ELSE text
ShapeOf(id) ==
  LET r == events[id]
      bare == [topic |-> << r.event >>, args |-> << PayloadOf(id), id >>]
  IN  IF r.event = "drained"
      THEN << [topic |-> << "drained" >>, args |-> << id >>] >>
      ELSE IF "jobId" \in DOMAIN r
      THEN << bare, [topic |-> << r.event, r.jobId >>, args |-> bare.args] >>
      ELSE << bare >>
RECURSIVE ShapesOf(_, _)
ShapesOf(a, b) == IF a > b THEN << >> ELSE ShapeOf(a) \o ShapesOf(a + 1, b)
IsPrefix(s, t) == Len(s) <= Len(t) /\ s = SubSeq(t, 1, Len(s))
C18_DispatchShape ==
  [][ \A q \in listeners :
        lpc[q] = "blocked" /\ cursor'[q] # cursor[q] =>
          LET new == SubSeq(emitted'[q], Len(emitted[q]) + 1, Len(emitted'[q]))
              first == readFrom[q] + 1
          IN  /\ IsPrefix(emitted[q], emitted'[q])
              /\ IF lpc'[q] = "read"
                 THEN new = ShapesOf(first, cursor'[q])
                 ELSE /\ IsPrefix(new, ShapesOf(first, cursor'[q]))
                      /\ IsPrefix(ShapesOf(first, cursor'[q] - 1), new) ]_vars
C18_Witness ==
  \E q \in listeners :
    /\ lpc[q] = "read" /\ Len(events) = 2 /\ cursor[q] = 2
    /\ Len(emitted[q]) = 3
    /\ events[1] = Drained /\ events[2] = Completed

\* C19: run() on a listener that is running fails with an error and does not
\* disturb the loop: the call issues no read and changes neither the cursor
\* nor the running state nor anything the loop has emitted, and the loop goes
\* on emitting each later record once.
RunCalled(q) == runCalls'[q] # runCalls[q]
C19_SecondStartRejected ==
  /\ [][ \A q \in listeners :
           RunCalled(q) /\ running[q] =>
             /\ "running" \in failures'[q]
             /\ UNCHANGED << running, lpc, cursor, readFrom, since, emitted,
                             started, closed, teardowns >> ]_vars
  /\ [](\A q \in listeners :
          "running" \in failures[q] =>
            NoDuplicates(SubSeq(emitted[q], started[q] + 1, Len(emitted[q]))))
C19_Witness ==
  \E q \in listeners :
    /\ "running" \in failures[q] /\ failures[q] = { "running" }
    /\ lpc[q] = "read" /\ cursor[q] = 2 /\ Len(emitted[q]) >= 2

\* C20: close() is idempotent: however many times it is called, the
\* connection is torn down once, by the first call, and every call returns
\* the promise of that one teardown.
C20_CloseIdempotent ==
  \A q \in listeners :
    /\ teardowns[q] <= 1
    /\ closeCalls[q] # << >> => teardowns[q] = 1 /\ closed[q] = { 1 }
    /\ \A k \in 1..Len(closeCalls[q]) : closeCalls[q][k] = 1
C20_Witness ==
  \E q \in listeners : Len(closeCalls[q]) >= 2 /\ lpc[q] = "ended"

\* C21: a listener whose loop has stopped (by close or by a terminating
\* error) is never running again: no later run() call on the object enters
\* the loop.
TerminatingFailures == { "decode", "dispatch", "read" }
C21_NoReturnToRunning ==
  \A q \in listeners :
    failures[q] \cap TerminatingFailures # {} =>
      ~running[q] /\ lpc[q] \notin { "read", "blocked" }


\* C22: on one object at most one loop is reading from the stream at any
\* time, whatever consume() calls were made on it.
LoopsOn(i) == { l \in Loops : InLoop(l) /\ inst[l] = i }
C22_OneLoopPerInstance ==
  \A i \in built : Cardinality(LoopsOn(i)) <= 1


\* C23: a failure inside an iteration of a reader (a rejected read, trim or
\* acknowledgement, a payload that cannot be decoded) is reported on the
\* error channel and does not stop the loop: the loop goes on with the next
\* record or the next iteration, it only ends at its top when the object is
\* closing, and the records of the batch the callback was not invoked for
\* stay unacknowledged.
RecoverableKinds == { "read", "trim", "ack", "parse" }
Reported(l) ==
  { e \in errors' \ errors : e[1] = l /\ e[2] \in RecoverableKinds }
Undecodable(l) == pc[l] = "cb" /\ ~Decodable(batch[l][idx[l]].data)
C23_RecoverableFailuresKeepLoop ==
  [][ \A l \in Loops :
        /\ Reported(l) # {} =>
             /\ pc'[l] \in { "top", "cb" }
             /\ \A k \in 1..Len(batch[l]) :
                  batch[l][k].id \notin Range(iter[l].calls) =>
                    << batch[l][k].id, l >> \in pel'
        /\ Undecodable(l) /\ pc'[l] # "cb" =>
             /\ << l, "parse", batch[l][idx[l]].id >> \in errors'
             /\ pc'[l] = "top"
        /\ InLoop(l) /\ ~InLoop(l)' => pc[l] = "top" /\ Closing(l)
        /\ pc[l] = "top" /\ ~Closing(l) /\ pc'[l] # "top" =>
             pc'[l] = "pending" ]_vars
C23_Witness ==
  \E l \in Loops :
    /\ \E e \in errors : e[1] = l /\ e[2] = "parse"
    /\ \E e \in errors : e[1] = l /\ e[2] = "ack"
    /\ pc[l] = "new"


\* C25: within one iteration of a reader the callback is invoked at most once
\* for each record id, whatever the batch size.
C25_CallbackOncePerPass ==
  \A l \in Loops : NoDuplicates(iter[l].calls)
C25_Witness ==
  \E l \in Loops :
    Len(iter[l].calls) >= 2 /\ iter[l].fails # {} /\ IterationEnded(l)


\* The failures that leave consumeEvents and were added by the step.
NewFailures(q) == failures'[q] \ failures[q]

\* C24: a failure that is not recoverable ends the listener loop and is
\* surfaced.  A reply whose record does not decode ends the loop at that
\* record; the step that ends a loop rejects run() with a terminating failure,
\* resets the running flag, emits the failure on 'error' when the constructor
\* made the call, and has emitted no record after the failing one; a loop
\* that ended emits nothing more and its cursor stays.
C24_FailureEndsLoop ==
  [][ \A q \in listeners :
        /\ lpc[q] = "blocked" /\ cursor'[q] # cursor[q]
             /\ ~Decodes(events[cursor'[q]]) =>
               /\ lpc'[q] = "failed"
               /\ "decode" \in failures'[q]
               /\ \A k \in 1..Len(BareIds(q)') : BareIds(q)'[k] < cursor'[q]
        /\ lpc[q] = "blocked" /\ lpc'[q] = "failed" =>
               /\ ~running'[q]
               /\ failures'[q] \cap TerminatingFailures # {}
               /\ autorun[q] => /\ NewFailures(q) \cap TerminatingFailures # {}
                                /\ NewFailures(q) \subseteq errorTopic'[q]
               /\ ~autorun[q] => errorTopic'[q] = errorTopic[q]
               /\ cursor'[q] = cursor[q] => emitted'[q] = emitted[q]
               /\ \A k \in 1..Len(BareIds(q)') : BareIds(q)'[k] <= cursor'[q]
        /\ lpc[q] = "failed" /\ lpc'[q] = "failed" =>
               emitted'[q] = emitted[q] /\ cursor'[q] = cursor[q]
    ]_vars
C24_Witness ==
  \E q \in listeners :
    /\ lpc[q] = "failed" /\ ~running[q] /\ autorun[q]
    /\ "decode" \in failures[q] /\ "decode" \in errorTopic[q]
    /\ cursor[q] < Len(events)
    /\ Len(emitted[q]) = started[q]
====
